---- MODULE Spec2Model ----
(***************************************************************************)
(* Model of scripts/update-postgres-versions.py: the release catalog       *)
(* fetcher, the version selector, the .versions.json store, the four       *)
(* regex-based file patchers and the driver main().                        *)
(*                                                                         *)
(* Text is a sequence of symbols.  A symbol is one character ("1", ".",    *)
(* "b", ...) or one chunk of literal text that the patterns treat as a     *)
(* unit ("POSTGRES_VERSION=", "pg_version:", ...).  Version tags are       *)
(* sequences of single characters, so split, isdigit, int and the \d       *)
(* classes of the patterns are computed character by character.            *)
(***************************************************************************)
EXTENDS Integers, Sequences, FiniteSets, TLC

VARIABLES
    pc,           \* position of the current run of main()
    mode,         \* command-line flags of the current run
    run,          \* number of the current run (1 = first)
    releases,     \* tag_name of every release the upstream API returns
    available,    \* main: available (dict major -> tag)
    recommended,  \* main: recommended (dict newest/oldest -> tag)
    current,      \* main: current (dict read from .versions.json)
    repo,         \* the working tree: .versions.json and the target files
    before,       \* the working tree when the current run started
    emitted,      \* set_github_output calls of the current run, in order
    exitCode,     \* exit status of the current run (-1 while it runs)
    calls,        \* write_versions_file / update_* calls of the run, in order
    report,       \* the booleans the update_* calls of the run returned
    written,      \* paths written by the current run, in order
    prev,         \* how the previous run ended
    patchHist     \* per patch operation: results of its direct applications

vars == <<pc, mode, run, releases, available, recommended, current, repo,
          before, emitted, exitCode, calls, report, written, prev, patchHist>>

(***************************************************************************)
(* Program constants                                                       *)
(***************************************************************************)
NUM_SUPPORTED_VERSIONS == 5
MIN_MAJOR_VERSION == 13

(***************************************************************************)
(* Bounds of the model                                                     *)
(***************************************************************************)
\* longest upstream release list of the fetcher specification
MaxReleases == 3
\* number of tags of SelectTags offered to the selector specification
MaxSelectTags == 7
\* runs of main() in a row against one working tree
MaxRuns == 2
\* direct applications of one patch operation in a row
MaxApplications == 2

(***************************************************************************)
(* Characters and Python's str / int primitives                            *)
(***************************************************************************)
Digits == {"0", "1", "2", "3", "4", "5", "6", "7", "8", "9"}

DigitVal(c) ==
    CASE c = "0" -> 0 [] c = "1" -> 1 [] c = "2" -> 2 [] c = "3" -> 3
      [] c = "4" -> 4 [] c = "5" -> 5 [] c = "6" -> 6 [] c = "7" -> 7
      [] c = "8" -> 8 [] c = "9" -> 9

\* str.isdigit(): non-empty and every character a digit
isdigit(p) == Len(p) > 0 /\ \A i \in 1..Len(p) : p[i] \in Digits

RECURSIVE DecimalVal(_)
DecimalVal(p) ==
    IF p = <<>> THEN 0
    ELSE 10 * DecimalVal(SubSeq(p, 1, Len(p) - 1)) + DigitVal(p[Len(p)])

\* int(p) succeeds: an optional sign followed by digits
IntOk(p) ==
    \/ isdigit(p)
    \/ Len(p) > 1 /\ p[1] \in {"+", "-"} /\ isdigit(Tail(p))

\* int(p), for IntOk(p)
IntVal(p) ==
    IF isdigit(p) THEN DecimalVal(p)
    ELSE IF p[1] = "-" THEN 0 - DecimalVal(Tail(p)) ELSE DecimalVal(Tail(p))

\* version.split("."): never empty, "" splits to [""]
RECURSIVE split(_)
split(s) ==
    IF \A i \in 1..Len(s) : s[i] # "." THEN <<s>>
    ELSE LET i == CHOOSE k \in 1..Len(s) :
                      s[k] = "." /\ \A j \in 1..(k - 1) : s[j] # "."
         IN  <<SubSeq(s, 1, i - 1)>> \o split(SubSeq(s, i + 1, Len(s)))

\* tuple(int(p) for p in version.split(".") if p.isdigit())
_version_tuple(version) ==
    LET digitParts == SelectSeq(split(version), isdigit)
    IN  [i \in 1..Len(digitParts) |-> DecimalVal(digitParts[i])]

\* mutant of TupleGT: a >= b, so an equal tuple replaces the stored release
RECURSIVE TupleGE(_, _)
TupleGE(a, b) ==
    IF b = <<>> THEN TRUE
    ELSE IF a = <<>> THEN FALSE
    ELSE IF a[1] # b[1] THEN a[1] > b[1]
    ELSE TupleGE(Tail(a), Tail(b))

\* Python's a > b on tuples of ints: lexicographic, a proper prefix is smaller
RECURSIVE TupleGT(_, _)
TupleGT(a, b) ==
    IF a = <<>> THEN FALSE
    ELSE IF b = <<>> THEN TRUE
    ELSE IF a[1] # b[1] THEN a[1] > b[1]
    ELSE TupleGT(Tail(a), Tail(b))

(***************************************************************************)
(* Release Catalog Fetcher                                                 *)
(***************************************************************************)
EmptyDict == [k \in {} |-> <<>>]

\* d[key] = value on a dict
DictSet(d, key, value) ==
    [k \in DOMAIN d \cup {key} |-> IF k = key THEN value ELSE d[k]]

\* one iteration of the loop over releases
ProcessRelease(latest_by_major, version) ==
    LET parts == split(version)
    IN  IF version = <<>> THEN latest_by_major
        ELSE IF Len(parts) < 2 THEN latest_by_major
        ELSE IF ~IntOk(parts[1]) THEN latest_by_major
        ELSE LET major == IntVal(parts[1])
             IN  IF major < MIN_MAJOR_VERSION THEN latest_by_major
                 ELSE IF \/ major \notin DOMAIN latest_by_major
                         \/ TupleGT(_version_tuple(version),
                                    _version_tuple(latest_by_major[major]))
                      THEN DictSet(latest_by_major, major, version)
                      ELSE latest_by_major

RECURSIVE FetchLoop(_, _)
FetchLoop(rels, latest_by_major) ==
    IF rels = <<>> THEN latest_by_major
    ELSE FetchLoop(Tail(rels), ProcessRelease(latest_by_major, Head(rels)))

fetch_available_versions(rels) == FetchLoop(rels, EmptyDict)

(***************************************************************************)
(* Version Policy Selector                                                 *)
(***************************************************************************)
\* sorted(keys, reverse=True)
RECURSIVE SortedDesc(_)
SortedDesc(S) ==
    IF S = {} THEN <<>>
    ELSE LET m == CHOOSE x \in S : \A y \in S : y <= x
         IN  <<m>> \o SortedDesc(S \ {m})

\* xs[:n]
Take(xs, n) == SubSeq(xs, 1, IF Len(xs) < n THEN Len(xs) ELSE n)

\* mutant of get_recommended_versions: the slice [:5] is missing
get_recommended_versions_unsliced(avail) ==
    LET supported_majors == SortedDesc(DOMAIN avail)
        hasAny == supported_majors # <<>>
    IN  [newest |-> IF hasAny THEN avail[supported_majors[1]] ELSE <<>>,
         oldest |-> IF hasAny THEN avail[supported_majors[Len(supported_majors)]]
                    ELSE <<>>]

get_recommended_versions(avail) ==
    LET supported_majors == Take(SortedDesc(DOMAIN avail), NUM_SUPPORTED_VERSIONS)
        hasAny == supported_majors # <<>>
        oldest == IF hasAny THEN supported_majors[Len(supported_majors)] ELSE 0
        newest == IF hasAny THEN supported_majors[1] ELSE 0
    IN  [newest |-> IF hasAny /\ newest # 0 THEN avail[newest] ELSE <<>>,
         oldest |-> IF hasAny /\ oldest # 0 THEN avail[oldest] ELSE <<>>]

(***************************************************************************)
(* The working tree                                                        *)
(*   repo.versions    .versions.json: exists, valid (parses as a JSON      *)
(*                    object), pairs (its key/value pairs in file order)   *)
(*   repo.ci/bake/mise  a target file: exists, text                        *)
(*   repo.dockerfiles text of each docker/Dockerfile.* (DOCKERFILES is     *)
(*                    globbed at import, so every listed file exists)      *)
(*   repo.order       DOCKERFILES, in glob order                           *)
(*   repo.readonly    paths whose write_text raises PermissionError        *)
(***************************************************************************)
VERSIONS_FILE == ".versions.json"
CI_WORKFLOW == ".github/workflows/ci.yml"
DOCKER_BAKE == "docker/docker-bake.hcl"
MISE_TOML == "mise.toml"

\* literal chunks of the target files
QUOTE == "\""
PG_VERSION_KEY == "pg_version:"
ACTION_REF == "postgres-binary:postgres@"
BAKE_HEAD == "variable \"PG_VERSIONS\" {"
MISE_HEAD == "VERSIONS=("
DOCKER_KEY == "POSTGRES_VERSION="
Whitespace == {" ", "\n"}

(***************************************************************************)
(* Version State Store                                                     *)
(***************************************************************************)
\* json.loads of an object: a dict, a repeated key keeps its last value
JsonLoads(pairs) ==
    [k \in {pairs[i][1] : i \in 1..Len(pairs)} |->
        LET last == CHOOSE i \in 1..Len(pairs) :
                        /\ pairs[i][1] = k
                        /\ \A j \in (i + 1)..Len(pairs) : pairs[j][1] # k
        IN  pairs[last][2]]

\* mutant of JsonDumps: the two values change places
JsonDumpsSwapped(versions) ==
    << <<"newest", versions.oldest>>, <<"oldest", versions.newest>> >>

\* json.dumps of the recommendation: its keys in insertion order
JsonDumps(versions) ==
    << <<"newest", versions.newest>>, <<"oldest", versions.oldest>> >>

read_versions_file(r) ==
    IF ~r.versions.exists
    THEN [raised |-> FALSE, value |-> [newest |-> <<>>, oldest |-> <<>>]]
    ELSE IF ~r.versions.valid
    THEN [raised |-> TRUE, value |-> EmptyDict]
    ELSE [raised |-> FALSE, value |-> JsonLoads(r.versions.pairs)]

write_versions_file(r, versions) ==
    IF VERSIONS_FILE \in r.readonly
    THEN [repo |-> r, raised |-> TRUE, wrote |-> <<>>]
    ELSE [repo |-> [r EXCEPT !.versions =
                       [exists |-> TRUE, valid |-> TRUE,
                        pairs |-> JsonDumps(versions)]],
          raised |-> FALSE, wrote |-> <<VERSIONS_FILE>>]

(***************************************************************************)
(* Pattern matching: re.sub scans left to right, replaces every            *)
(* non-overlapping leftmost match, and copies everything else.             *)
(***************************************************************************)
\* first index >= i whose symbol is outside C (Len(s)+1 when there is none)
RunEndIn(s, i, C) ==
    CHOOSE j \in i..(Len(s) + 1) :
        /\ (j = Len(s) + 1 \/ s[j] \notin C)
        /\ \A k \in i..(j - 1) : s[k] \in C

\* first index >= i whose symbol is in C (Len(s)+1 when there is none)
RunEndNotIn(s, i, C) ==
    CHOOSE j \in i..(Len(s) + 1) :
        /\ (j = Len(s) + 1 \/ s[j] \in C)
        /\ \A k \in i..(j - 1) : s[k] \notin C

\* \d+\.\d+\.\d+ starting at j: index of its last symbol, 0 when no match
MatchVersion3(s, j) ==
    LET a == RunEndIn(s, j, Digits)
        b == RunEndIn(s, a + 1, Digits)
        c == RunEndIn(s, b + 1, Digits)
    IN  IF a > j /\ a <= Len(s) /\ s[a] = "." /\ b > a + 1 /\ b <= Len(s)
           /\ s[b] = "." /\ c > b + 1
        THEN c - 1 ELSE 0

\* "[\d\.]+" starting at j: index of the closing quote, 0 when no match
MatchQuoted(s, j) ==
    LET e == RunEndIn(s, j + 1, Digits \cup {"."})
    IN  IF j <= Len(s) /\ s[j] = QUOTE /\ e > j + 1 /\ e <= Len(s) /\ s[e] = QUOTE
        THEN e ELSE 0

\* (pg_version:\s*\[)[^\]]+(\]) at i: <<end of group 1, end of match>>
MatchCiMatrix(s, i) ==
    LET w == RunEndIn(s, i + 1, Whitespace)
        r == RunEndNotIn(s, w + 1, {"]"})
    IN  IF s[i] = PG_VERSION_KEY /\ w <= Len(s) /\ s[w] = "[" /\ r > w + 1
           /\ r <= Len(s)
        THEN <<w, r>> ELSE <<0, 0>>

\* variable "PG_VERSIONS" \{[^}]+\}[^}]*\} at i (DOTALL)
MatchBake(s, i) ==
    LET r1 == RunEndNotIn(s, i + 1, {"}"})
        r2 == RunEndNotIn(s, r1 + 1, {"}"})
    IN  IF s[i] = BAKE_HEAD /\ r1 > i + 1 /\ r1 <= Len(s) /\ r2 <= Len(s)
        THEN r2 ELSE 0

\* VERSIONS=\("[\d\.]+" "[\d\.]+"\s*(?:"[\d\.]+")?\) at i
MatchMise(s, i) ==
    LET q1 == MatchQuoted(s, i + 1)
        q2 == MatchQuoted(s, q1 + 2)
        w  == RunEndIn(s, q2 + 1, Whitespace)
        q3 == MatchQuoted(s, w)
    IN  IF s[i] = MISE_HEAD /\ q1 > 0 /\ q1 + 1 <= Len(s) /\ s[q1 + 1] = " "
           /\ q2 > 0
        THEN IF q3 > 0 /\ q3 + 1 <= Len(s) /\ s[q3 + 1] = ")" THEN q3 + 1
             ELSE IF w <= Len(s) /\ s[w] = ")" THEN w
             ELSE 0
        ELSE 0

\* index of the last symbol of the match of pattern pat at i, 0 when none
MatchEnd(pat, s, i) ==
    CASE pat = "ci_matrix" -> MatchCiMatrix(s, i)[2]
      [] pat = "ci_ref" -> IF s[i] = ACTION_REF THEN MatchVersion3(s, i + 1) ELSE 0
      [] pat = "bake" -> MatchBake(s, i)
      [] pat = "mise" -> MatchMise(s, i)
      [] pat = "dockerfile" ->
            IF s[i] = DOCKER_KEY THEN MatchVersion3(s, i + 1) ELSE 0

\* the text put in place of the match of pattern pat that starts at i
Replacement(pat, versions, s, i) ==
    CASE pat = "ci_matrix" ->
            SubSeq(s, i, MatchCiMatrix(s, i)[1])
            \o <<QUOTE>> \o versions.newest \o <<QUOTE, ",", " ", QUOTE>>
            \o versions.oldest \o <<QUOTE>> \o <<"]">>
      [] pat = "ci_ref" -> <<ACTION_REF>> \o versions.oldest
      [] pat = "bake" ->
            <<BAKE_HEAD, "\n", "  default = {", "\n", "    pg">>
            \o split(versions.oldest)[1] \o <<" = ", QUOTE>>
            \o versions.oldest \o <<QUOTE, "\n", "    pg">>
            \o split(versions.newest)[1] \o <<" = ", QUOTE>>
            \o versions.newest \o <<QUOTE, "\n", "  ", "}", "\n", "}">>
      [] pat = "mise" ->
            <<MISE_HEAD, QUOTE>> \o versions.oldest \o <<QUOTE, " ", QUOTE>>
            \o versions.newest \o <<QUOTE, ")">>
      [] pat = "dockerfile" -> <<DOCKER_KEY>> \o versions.oldest

RECURSIVE ReSubFrom(_, _, _, _)
ReSubFrom(pat, versions, s, i) ==
    IF i > Len(s) THEN <<>>
    ELSE LET e == MatchEnd(pat, s, i)
         IN  IF e = 0 THEN <<s[i]>> \o ReSubFrom(pat, versions, s, i + 1)
             ELSE Replacement(pat, versions, s, i)
                  \o ReSubFrom(pat, versions, s, e + 1)

\* re.sub(pattern, replacement, content)
ReSub(pat, versions, content) == ReSubFrom(pat, versions, content, 1)

(***************************************************************************)
(* File Patch Engine.  Each operation yields the new working tree, the     *)
(* boolean it returns, whether it raised, and the paths it wrote.          *)
(***************************************************************************)
\* the shape shared by update_ci_workflow, update_docker_bake, update_mise_toml
PatchFile(r, field, path, content) ==
    IF content = r[field].text
    THEN [repo |-> r, changed |-> FALSE, raised |-> FALSE, wrote |-> <<>>]
    ELSE IF path \in r.readonly
    THEN [repo |-> r, changed |-> FALSE, raised |-> TRUE, wrote |-> <<>>]
    ELSE [repo |-> [r EXCEPT ![field].text = content],
          changed |-> TRUE, raised |-> FALSE, wrote |-> <<path>>]

ReadFailed(r) == [repo |-> r, changed |-> FALSE, raised |-> TRUE, wrote |-> <<>>]

update_ci_workflow(r, versions) ==
    IF ~r.ci.exists THEN ReadFailed(r)
    ELSE PatchFile(r, "ci", CI_WORKFLOW,
                   ReSub("ci_ref", versions,
                         ReSub("ci_matrix", versions, r.ci.text)))

update_docker_bake(r, versions) ==
    IF ~r.bake.exists THEN ReadFailed(r)
    ELSE PatchFile(r, "bake", DOCKER_BAKE, ReSub("bake", versions, r.bake.text))

update_mise_toml(r, versions) ==
    IF ~r.mise.exists THEN ReadFailed(r)
    ELSE PatchFile(r, "mise", MISE_TOML, ReSub("mise", versions, r.mise.text))

\* the loop over DOCKERFILES; acc is the result so far
RECURSIVE DockerfilesLoop(_, _, _)
DockerfilesLoop(todo, versions, acc) ==
    IF todo = <<>> \/ acc.raised THEN acc
    ELSE LET dockerfile == Head(todo)
             content == acc.repo.dockerfiles[dockerfile]
             new_content == ReSub("dockerfile", versions, content)
         IN  DockerfilesLoop(Tail(todo), versions,
                IF new_content = content THEN acc
                ELSE IF dockerfile \in acc.repo.readonly
                THEN [acc EXCEPT !.raised = TRUE]
                ELSE [repo |-> [acc.repo EXCEPT
                                   !.dockerfiles[dockerfile] = new_content],
                      changed |-> TRUE, raised |-> FALSE,
                      wrote |-> Append(acc.wrote, dockerfile)])

update_dockerfiles(r, versions) ==
    DockerfilesLoop(r.order, versions,
        [repo |-> r, changed |-> FALSE, raised |-> FALSE, wrote |-> <<>>])

(***************************************************************************)
(* Reconciliation Driver: main()                                           *)
(***************************************************************************)
\* mutant of IsEmptyCatalog: the empty catalog is not detected
IsEmptyCatalogNever(avail) == FALSE

\* `not available`
IsEmptyCatalog(avail) == DOMAIN avail = {}

\* mutant of versions_match: the comparison is inverted
versions_mismatch(rec, cur) == rec # cur

\* recommended == current, on dicts
versions_match(rec, cur) == rec = cur

\* set_github_output(key, value): the line appended to $GITHUB_OUTPUT
\* (the run is modelled with GITHUB_OUTPUT set, as under GitHub Actions)
OutputLine(key, value) == <<key, value>>

UpdateSignal(rec) ==
    << OutputLine("updated", <<"true">>),
       OutputLine("newest_version", rec.newest),
       OutputLine("oldest_version", rec.oldest) >>

\* mutant of ApplyOrder: the record is written after the target files
ApplyOrderRecordLast ==
    << "update_ci_workflow", "update_docker_bake", "update_mise_toml",
       "update_dockerfiles", "write_versions_file" >>

\* mutant of ApplyOrder: the build matrix is patched before the CI matrix
ApplyOrderBakeFirst ==
    << "write_versions_file", "update_docker_bake", "update_ci_workflow",
       "update_mise_toml", "update_dockerfiles" >>

\* the calls of the --apply branch, in program order
ApplyOrder ==
    << "write_versions_file", "update_ci_workflow", "update_docker_bake",
       "update_mise_toml", "update_dockerfiles" >>

\* position of main() in the --apply branch after the calls made so far
ApplyPc(made) ==
    IF Len(made) < Len(ApplyOrder) THEN ApplyOrder[Len(made) + 1]
    ELSE "APPLY_REPORT"

\* mutant of Branch: without --check an update is applied, flag or not
BranchApplyByDefault(match, flags) ==
    IF match THEN "UP_TO_DATE"
    ELSE IF flags.check THEN "CHECK_REPORT"
    ELSE ApplyPc(<<>>)

\* where main() goes once it has compared (lines 240-286)
Branch(match, flags) ==
    IF match THEN "UP_TO_DATE"
    ELSE IF flags.check THEN "CHECK_REPORT"
    ELSE IF flags.apply THEN ApplyPc(<<>>)
    ELSE "NO_MODE"

Terminal ==
    {"FETCH_ERROR", "FAILED", "RAISED", "UP_TO_DATE", "CHECK_REPORT",
     "NO_MODE", "DONE"}

Modes == [check : BOOLEAN, apply : BOOLEAN]

NoPrev == [pc |-> "NONE", mode |-> [check |-> FALSE, apply |-> FALSE],
           calls |-> <<>>]

PatchOps ==
    {"update_ci_workflow", "update_docker_bake", "update_mise_toml",
     "update_dockerfiles"}

\* httpx.get / raise_for_status / resp.json() raises
FetchError ==
    /\ pc = "FETCHING"
    /\ pc' = "FETCH_ERROR"
    /\ exitCode' = 1
    /\ UNCHANGED <<mode, run, releases, available, recommended, current, repo,
                   before, emitted, calls, report, written, prev, patchHist>>

\* lines 215-219: fetch_available_versions() and the empty-catalog exit
Fetch ==
    /\ pc = "FETCHING"
    /\ available' = fetch_available_versions(releases)
    /\ IF IsEmptyCatalog(available')
       THEN pc' = "FAILED" /\ exitCode' = 1
       ELSE pc' = "COMPARING" /\ exitCode' = exitCode
    /\ UNCHANGED <<mode, run, releases, recommended, current, repo, before,
                   emitted, calls, report, written, prev, patchHist>>

\* lines 221-254 and 283-286: select, read the record, compare, branch
Compare ==
    /\ pc = "COMPARING"
    /\ recommended' = get_recommended_versions(available)
    /\ LET rd == read_versions_file(repo)
       IN  IF rd.raised
           THEN /\ pc' = "RAISED"
                /\ exitCode' = 1
                /\ UNCHANGED <<current, emitted>>
           ELSE /\ current' = rd.value
                /\ pc' = Branch(versions_match(recommended', rd.value), mode)
                /\ emitted' =
                     CASE pc' = "UP_TO_DATE" ->
                            <<OutputLine("updated", <<"false">>)>>
                       [] pc' = "CHECK_REPORT" -> UpdateSignal(recommended')
                       [] OTHER -> emitted
                /\ exitCode' = IF pc' \in Terminal THEN 0 ELSE exitCode
    /\ UNCHANGED <<mode, run, releases, available, repo, before, calls,
                   report, written, prev, patchHist>>

\* what one call of the --apply branch does to the run
ApplyCall(name, res, isPatch) ==
    /\ pc = name
    /\ calls' = Append(calls, name)
    /\ repo' = res.repo
    /\ written' = written \o res.wrote
    /\ report' = IF isPatch /\ ~res.raised THEN Append(report, res.changed)
                 ELSE report
    /\ IF res.raised
       THEN pc' = "RAISED" /\ exitCode' = 1
       ELSE pc' = ApplyPc(calls') /\ exitCode' = exitCode
    /\ UNCHANGED <<mode, run, releases, available, recommended, current,
                   before, emitted, prev, patchHist>>

\* line 260
WriteVersions ==
    ApplyCall("write_versions_file", write_versions_file(repo, recommended), FALSE)

\* line 263
UpdateCi ==
    ApplyCall("update_ci_workflow", update_ci_workflow(repo, recommended), TRUE)

\* line 266
UpdateBake ==
    ApplyCall("update_docker_bake", update_docker_bake(repo, recommended), TRUE)

\* line 269
UpdateMise ==
    ApplyCall("update_mise_toml", update_mise_toml(repo, recommended), TRUE)

\* line 272
UpdateDockerfiles ==
    ApplyCall("update_dockerfiles", update_dockerfiles(repo, recommended), TRUE)

\* lines 275-281
ApplyReport ==
    /\ pc = "APPLY_REPORT"
    /\ emitted' = UpdateSignal(recommended)
    /\ exitCode' = 0
    /\ pc' = "DONE"
    /\ UNCHANGED <<mode, run, releases, available, recommended, current, repo,
                   before, calls, report, written, prev, patchHist>>

\* the script is run again on the working tree the last run left
NextRun ==
    /\ pc \in Terminal
    /\ run < MaxRuns
    /\ run' = run + 1
    /\ mode' \in Modes
    /\ pc' = "FETCHING"
    /\ before' = repo
    /\ prev' = [pc |-> pc, mode |-> mode, calls |-> calls]
    /\ available' = EmptyDict
    /\ recommended' = EmptyDict
    /\ current' = EmptyDict
    /\ emitted' = <<>>
    /\ exitCode' = -1
    /\ calls' = <<>>
    /\ report' = <<>>
    /\ written' = <<>>
    /\ UNCHANGED <<releases, repo, patchHist>>

\* one direct application of a patch operation (outside main)
ApplyPatch(op, res, after) ==
    /\ pc = "PATCHING"
    /\ Len(patchHist[op]) < MaxApplications
    /\ repo' = res.repo
    /\ patchHist' = [patchHist EXCEPT ![op] =
                        Append(@, [changed |-> res.changed, raised |-> res.raised,
                                   wrote |-> res.wrote, after |-> after])]
    /\ UNCHANGED <<pc, mode, run, releases, available, recommended, current,
                   before, emitted, exitCode, calls, report, written, prev>>

PatchCi ==
    LET res == update_ci_workflow(repo, recommended)
    IN  ApplyPatch("update_ci_workflow", res, <<res.repo.ci.text>>)

PatchBake ==
    LET res == update_docker_bake(repo, recommended)
    IN  ApplyPatch("update_docker_bake", res, <<res.repo.bake.text>>)

PatchMise ==
    LET res == update_mise_toml(repo, recommended)
    IN  ApplyPatch("update_mise_toml", res, <<res.repo.mise.text>>)

PatchDockerfiles ==
    LET res == update_dockerfiles(repo, recommended)
    IN  ApplyPatch("update_dockerfiles", res,
                   [i \in 1..Len(repo.order) |-> res.repo.dockerfiles[repo.order[i]]])

\* the selector applied to whatever catalog the fetcher produced
ApplySelector ==
    /\ pc \in {"COMPARING", "FAILED"}
    /\ recommended' = get_recommended_versions(available)
    /\ pc' = "SELECTED"
    /\ UNCHANGED <<mode, run, releases, available, current, repo, before,
                   emitted, exitCode, calls, report, written, prev, patchHist>>

(***************************************************************************)
(* Inputs: upstream tags                                                   *)
(***************************************************************************)
T18_2_0 == <<"1", "8", ".", "2", ".", "0">>
T17_6_1 == <<"1", "7", ".", "6", ".", "1">>
T16_10_0 == <<"1", "6", ".", "1", "0", ".", "0">>
T15_14_0 == <<"1", "5", ".", "1", "4", ".", "0">>
T14_19_0 == <<"1", "4", ".", "1", "9", ".", "0">>
T13_22_0 == <<"1", "3", ".", "2", "2", ".", "0">>
T12_5_0 == <<"1", "2", ".", "5", ".", "0">>
T19_1_0 == <<"1", "9", ".", "1", ".", "0">>
T20_0_0 == <<"2", "0", ".", "0", ".", "0">>
T13_9 == <<"1", "3", ".", "9">>
T13_10 == <<"1", "3", ".", "1", "0">>
T13_09 == <<"1", "3", ".", "0", "9">>
T13_b == <<"1", "3", ".", "b">>
T14_0 == <<"1", "4", ".", "0">>
T14_0_1 == <<"1", "4", ".", "0", ".", "1">>
TPlus14_2 == <<"+", "1", "4", ".", "2">>
T12_99 == <<"1", "2", ".", "9", "9">>
T15 == <<"1", "5">>
Tv16_1 == <<"v", "1", "6", ".", "1">>
T14_19_0_1 == <<"1", "4", ".", "1", "9", ".", "0", ".", "1">>
TEmpty == <<>>

(***************************************************************************)
(* Inputs: working trees                                                   *)
(***************************************************************************)
Rec(n, o) == [exists |-> TRUE, valid |-> TRUE,
              pairs |-> << <<"newest", n>>, <<"oldest", o>> >>]

VersionsFiles ==
    { [exists |-> FALSE, valid |-> FALSE, pairs |-> <<>>],
      [exists |-> TRUE, valid |-> FALSE, pairs |-> <<>>],
      Rec(T17_6_1, T13_22_0),
      Rec(T13_22_0, T17_6_1),
      Rec(T18_2_0, T14_19_0),
      Rec(T13_22_0, T13_22_0),
      [exists |-> TRUE, valid |-> TRUE,
       pairs |-> << <<"oldest", T14_19_0>>, <<"newest", T18_2_0>> >>],
      [exists |-> TRUE, valid |-> TRUE,
       pairs |-> << <<"newest", T18_2_0>>, <<"middle", T16_10_0>>,
                    <<"oldest", T14_19_0>> >>] }

File(text) == [exists |-> TRUE, text |-> text]
Missing == [exists |-> FALSE, text |-> <<>>]

CiText(n, o, ref) ==
    <<"jobs:", "\n", "  ", PG_VERSION_KEY, " ", "[", QUOTE>> \o n
    \o <<QUOTE, ",", " ", QUOTE>> \o o
    \o <<QUOTE, "]", "\n", "  run: mise use ", ACTION_REF>> \o ref \o <<"\n">>

BakeText(n, o) ==
    <<"group \"default\" {", "}", "\n", BAKE_HEAD, "\n", "  default = {", "\n",
      "    pg">> \o split(o)[1] \o <<" = ", QUOTE>> \o o
    \o <<QUOTE, "\n", "    pg">> \o split(n)[1] \o <<" = ", QUOTE>> \o n
    \o <<QUOTE, "\n", "  ", "}", "\n", "}", "\n", "target \"test\" {", "}">>

\* a block that still lists three versions, as the 3-version script wrote it
BakeText3 ==
    <<BAKE_HEAD, "\n", "  default = {", " pg13 = ", QUOTE>> \o T13_22_0
    \o <<QUOTE, " pg15 = ", QUOTE>> \o T15_14_0
    \o <<QUOTE, " pg17 = ", QUOTE>> \o T17_6_1 \o <<QUOTE, "}", "}", "\n">>

MiseText(n, o) ==
    <<"[tasks]", "\n", MISE_HEAD, QUOTE>> \o o \o <<QUOTE, " ", QUOTE>> \o n
    \o <<QUOTE, ")", "\n">>

MiseText3 ==
    <<MISE_HEAD, QUOTE>> \o T13_22_0 \o <<QUOTE, " ", QUOTE>> \o T15_14_0
    \o <<QUOTE, " ", QUOTE>> \o T17_6_1 \o <<QUOTE, ")", "\n">>

DockerText(o) == <<"FROM ubuntu", "\n", "ARG ", DOCKER_KEY>> \o o \o <<"\n">>

NoPattern == <<"# nothing to patch", "\n">>

DockerNames == <<"docker/Dockerfile.alpine", "docker/Dockerfile.debian">>

Tree(ci, bake, mise, d1, d2, readonly) ==
    [ci |-> ci, bake |-> bake, mise |-> mise,
     dockerfiles |-> [f \in {DockerNames[1], DockerNames[2]} |->
                         IF f = DockerNames[1] THEN d1 ELSE d2],
     order |-> DockerNames, readonly |-> readonly]

\* the target files of a checkout, without .versions.json
Trees ==
    { \* every file carries the versions of an earlier run
      Tree(File(CiText(T17_6_1, T13_22_0, T13_22_0)),
           File(BakeText(T17_6_1, T13_22_0)), File(MiseText(T17_6_1, T13_22_0)),
           DockerText(T13_22_0), DockerText(T13_22_0), {}),
      \* every file already carries 18.2.0 / 14.19.0
      Tree(File(CiText(T18_2_0, T14_19_0, T14_19_0)),
           File(BakeText(T18_2_0, T14_19_0)), File(MiseText(T18_2_0, T14_19_0)),
           DockerText(T14_19_0), DockerText(T14_19_0), {}),
      \* no file holds its pattern
      Tree(File(NoPattern), File(NoPattern), File(NoPattern),
           NoPattern, NoPattern, {}),
      \* three-version leftovers, one Dockerfile without the pattern
      Tree(File(CiText(T17_6_1, T13_22_0, T13_22_0)), File(BakeText3),
           File(MiseText3), NoPattern, DockerText(T13_22_0), {}),
      \* a target file is missing
      Tree(Missing, File(BakeText(T17_6_1, T13_22_0)),
           File(MiseText(T17_6_1, T13_22_0)),
           DockerText(T13_22_0), DockerText(T13_22_0), {}),
      Tree(File(CiText(T17_6_1, T13_22_0, T13_22_0)), Missing,
           File(MiseText(T17_6_1, T13_22_0)),
           DockerText(T13_22_0), DockerText(T13_22_0), {}),
      Tree(File(CiText(T17_6_1, T13_22_0, T13_22_0)),
           File(BakeText(T17_6_1, T13_22_0)), Missing,
           DockerText(T13_22_0), DockerText(T13_22_0), {}),
      \* a file cannot be written
      Tree(File(CiText(T17_6_1, T13_22_0, T13_22_0)),
           File(BakeText(T17_6_1, T13_22_0)), File(MiseText(T17_6_1, T13_22_0)),
           DockerText(T13_22_0), DockerText(T13_22_0), {DockerNames[2]}),
      Tree(File(CiText(T17_6_1, T13_22_0, T13_22_0)),
           File(BakeText(T17_6_1, T13_22_0)), File(MiseText(T17_6_1, T13_22_0)),
           DockerText(T13_22_0), DockerText(T13_22_0), {VERSIONS_FILE}) }

WithVersions(tree, vf) ==
    [versions |-> vf, ci |-> tree.ci, bake |-> tree.bake, mise |-> tree.mise,
     dockerfiles |-> tree.dockerfiles, order |-> tree.order,
     readonly |-> tree.readonly]

Repos == {WithVersions(tree, vf) : tree \in Trees, vf \in VersionsFiles}

\* what the upstream API answers in the driver specification
DriverReleases ==
    { <<>>,
      <<T12_5_0, T15>>,
      <<T18_2_0, T17_6_1, T16_10_0, T15_14_0, T14_19_0, T13_22_0, T12_5_0>>,
      <<T13_22_0, T17_6_1>>,
      <<T13_22_0>> }

(***************************************************************************)
(* Specification of the driver                                             *)
(***************************************************************************)
InitRun ==
    /\ pc = "FETCHING"
    /\ run = 1
    /\ available = EmptyDict
    /\ recommended = EmptyDict
    /\ current = EmptyDict
    /\ before = repo
    /\ emitted = <<>>
    /\ exitCode = -1
    /\ calls = <<>>
    /\ report = <<>>
    /\ written = <<>>
    /\ prev = NoPrev
    /\ patchHist = [op \in PatchOps |-> <<>>]

Init ==
    /\ mode \in Modes
    /\ releases \in DriverReleases
    /\ repo \in Repos
    /\ InitRun

Next ==
    \/ FetchError
    \/ Fetch
    \/ Compare
    \/ WriteVersions
    \/ UpdateCi
    \/ UpdateBake
    \/ UpdateMise
    \/ UpdateDockerfiles
    \/ ApplyReport
    \/ NextRun

Spec == Init /\ [][Next]_vars

(***************************************************************************)
(* Specification of the fetcher: every release list of up to MaxReleases   *)
(* tags of FetchTags, in every order                                       *)
(***************************************************************************)
FetchTags ==
    {TEmpty, T15, Tv16_1, T12_99, T13_9, T13_10, T13_09, T13_b,
     T14_0, T14_0_1, TPlus14_2}

SeqsUpTo(S, n) == UNION {[1..k -> S] : k \in 0..n}

OneRepo ==
    WithVersions(Tree(File(CiText(T17_6_1, T13_22_0, T13_22_0)),
                      File(BakeText(T17_6_1, T13_22_0)),
                      File(MiseText(T17_6_1, T13_22_0)),
                      DockerText(T13_22_0), DockerText(T13_22_0), {}),
                 Rec(T17_6_1, T13_22_0))

InitFetch ==
    /\ mode = [check |-> TRUE, apply |-> FALSE]
    /\ releases \in SeqsUpTo(FetchTags, MaxReleases)
    /\ repo = OneRepo
    /\ InitRun

NextFetch == Fetch

SpecFetch == InitFetch /\ [][NextFetch]_vars

(***************************************************************************)
(* Specification of the selector: the catalogs of every subset of the      *)
(* first MaxSelectTags tags of SelectTagList                               *)
(***************************************************************************)
SelectTagList ==
    <<T12_5_0, T13_22_0, T14_19_0, T15_14_0, T16_10_0, T17_6_1, T18_2_0,
      T19_1_0, T20_0_0>>

RECURSIVE Pick(_, _, _)
Pick(list, S, i) ==
    IF i > Len(list) THEN <<>>
    ELSE (IF i \in S THEN <<list[i]>> ELSE <<>>) \o Pick(list, S, i + 1)

InitSelect ==
    /\ mode = [check |-> TRUE, apply |-> FALSE]
    /\ releases \in {Pick(SelectTagList, S, 1) : S \in SUBSET (1..MaxSelectTags)}
    /\ repo = OneRepo
    /\ InitRun

NextSelect ==
    \/ Fetch
    \/ ApplySelector

SpecSelect == InitSelect /\ [][NextSelect]_vars

(***************************************************************************)
(* Specification of the patch engine: each operation applied up to         *)
(* MaxApplications times in a row with one recommendation                  *)
(***************************************************************************)
PatchReleases ==
    { <<T18_2_0, T17_6_1, T16_10_0, T15_14_0, T14_19_0, T13_22_0>>,
      <<T13_22_0, T17_6_1>>,
      <<T13_22_0>>,
      <<T13_9, T14_0>>,
      <<T14_19_0_1, T18_2_0>>,
      <<T13_b, T14_0_1>> }

InitPatch ==
    /\ mode = [check |-> FALSE, apply |-> TRUE]
    /\ releases \in PatchReleases
    /\ repo \in {WithVersions(tree, Rec(T17_6_1, T13_22_0)) : tree \in Trees}
    /\ pc = "PATCHING"
    /\ run = 1
    /\ available = fetch_available_versions(releases)
    /\ recommended = get_recommended_versions(available)
    /\ current = EmptyDict
    /\ before = repo
    /\ emitted = <<>>
    /\ exitCode = -1
    /\ calls = <<>>
    /\ report = <<>>
    /\ written = <<>>
    /\ prev = NoPrev
    /\ patchHist = [op \in PatchOps |-> <<>>]

NextPatch ==
    \/ PatchCi
    \/ PatchBake
    \/ PatchMise
    \/ PatchDockerfiles

SpecPatch == InitPatch /\ [][NextPatch]_vars

(***************************************************************************)
(* Properties of the fetcher (SpecFetch)                                   *)
(***************************************************************************)
Fetched == pc \in {"COMPARING", "FAILED"}

\* the tag has a leading component that int() accepts, and a second one
HasMajor(tag) == Len(split(tag)) >= 2 /\ IntOk(split(tag)[1])
MajorOf(tag) == IntVal(split(tag)[1])

\* component-wise, left to right: a is smaller than b
LexLess(a, b) ==
    \E k \in 1..Len(b) :
        /\ k <= Len(a) + 1
        /\ \A j \in 1..(k - 1) : a[j] = b[j]
        /\ (k = Len(a) + 1 \/ a[k] < b[k])

\* indices of the releases that carry major m
ReleasesOf(m) ==
    {i \in 1..Len(releases) : HasMajor(releases[i]) /\ MajorOf(releases[i]) = m}

Reordered(perm) == [i \in 1..Len(releases) |-> releases[perm[i]]]

\* C6: the catalog holds exactly the majors >= 13 that some release carries;
\* the entry of a major is a release of that major that no release of the
\* major exceeds in its numeric tuple and that strictly exceeds every earlier
\* release of the major; and every reordering of the releases yields the same
\* majors with entries of the same numeric tuple.
CatalogIsLatestPerMajor ==
    Fetched =>
        /\ \A m \in DOMAIN available : m >= 13
        /\ DOMAIN available =
              {MajorOf(releases[i]) :
                  i \in {j \in 1..Len(releases) :
                            HasMajor(releases[j]) /\ MajorOf(releases[j]) >= 13}}
        /\ \A m \in DOMAIN available :
              \E i \in ReleasesOf(m) :
                  /\ available[m] = releases[i]
                  /\ \A j \in ReleasesOf(m) :
                        ~LexLess(_version_tuple(releases[i]),
                                 _version_tuple(releases[j]))
                  /\ \A j \in ReleasesOf(m) :
                        j < i => LexLess(_version_tuple(releases[j]),
                                         _version_tuple(releases[i]))
        /\ \A perm \in Permutations(1..Len(releases)) :
              LET other == fetch_available_versions(Reordered(perm))
              IN  /\ DOMAIN other = DOMAIN available
                  /\ \A m \in DOMAIN available :
                        _version_tuple(other[m]) = _version_tuple(available[m])

\* C6 witness: three releases of major 13 with 13.10 in the middle: the
\* catalog keeps 13.10, which is greatest as a tuple but not as a string.
CatalogKeepsGreatestTuple ==
    /\ Fetched
    /\ releases = <<T13_9, T13_10, T13_09>>
    /\ available[13] = T13_10

\* every dot-separated component of the tag is numeric, and there are two or more
NumericTag(tag) ==
    /\ Len(split(tag)) >= 2
    /\ \A i \in 1..Len(split(tag)) : isdigit(split(tag)[i])

\* C7: every catalog value is a tag made of numeric components only, and
\* the catalog is the one the numeric tags alone produce.
CatalogHoldsOnlyNumericTags ==
    Fetched =>
        /\ \A m \in DOMAIN available : NumericTag(available[m])
        /\ available = fetch_available_versions(SelectSeq(releases, NumericTag))

(***************************************************************************)
(* Properties of the selector (SpecSelect)                                 *)
(***************************************************************************)
\* the majors of the catalog that fewer than 5 majors exceed
Window == {m \in DOMAIN available :
              Cardinality({k \in DOMAIN available : k > m}) < 5}

\* C8: newest is the catalog version of the largest major; oldest is the
\* catalog version of the smallest of the (up to) 5 largest majors; with one
\* major both are its version; with an empty catalog both are empty.
RecommendationIsWindowEnds ==
    pc = "SELECTED" =>
        /\ DOMAIN recommended = {"newest", "oldest"}
        /\ DOMAIN available = {} =>
              recommended.newest = <<>> /\ recommended.oldest = <<>>
        /\ DOMAIN available # {} =>
              /\ \E hi \in Window :
                    /\ \A m \in DOMAIN available : m <= hi
                    /\ recommended.newest = available[hi]
              /\ \E lo \in Window :
                    /\ \A m \in Window : lo <= m
                    /\ recommended.oldest = available[lo]
        /\ Cardinality(DOMAIN available) = 1 =>
              recommended.newest = recommended.oldest

\* C8 witness: six majors in the catalog, so the smallest one is outside the
\* window and oldest is the version of the fifth largest.
SelectorCutsWindow ==
    /\ pc = "SELECTED"
    /\ DOMAIN available = {13, 14, 15, 16, 17, 18}
    /\ recommended.newest = T18_2_0
    /\ recommended.oldest = T14_19_0

(***************************************************************************)
(* Properties of the patch engine (SpecPatch)                              *)
(***************************************************************************)
\* C4: the second of two applications in a row of a patch operation with
\* the same recommendation returns False, writes nothing and leaves the
\* content the first one produced.
PatchIsIdempotent ==
    \A op \in PatchOps :
        (Len(patchHist[op]) >= 2 /\ ~patchHist[op][1].raised) =>
            /\ ~patchHist[op][2].raised
            /\ ~patchHist[op][2].changed
            /\ patchHist[op][2].wrote = <<>>
            /\ patchHist[op][2].after = patchHist[op][1].after

(***************************************************************************)
(* Properties of the driver (Spec)                                         *)
(***************************************************************************)
\* main() has read the record and compared it with the recommendation
Compared ==
    /\ pc \notin {"FETCHING", "FETCH_ERROR", "FAILED", "COMPARING"}
    /\ ~(pc = "RAISED" /\ calls = <<>>)

NoUpdateSignal == << <<"updated", <<"false">>>> >>

UpdateSignalOf(n, o) ==
    << <<"updated", <<"true">>>>, <<"newest_version", n>>,
       <<"oldest_version", o>> >>

\* the run ended UP_TO_DATE: updated=false, status 0, nothing written
EndedUpToDate ==
    /\ pc = "UP_TO_DATE"
    /\ emitted = NoUpdateSignal
    /\ exitCode = 0
    /\ written = <<>>
    /\ calls = <<>>
    /\ repo = before

\* C1 as stated: whenever the versions of the record and the versions of the
\* recommendation are the same set, the run ends UP_TO_DATE.
SameVersionSetIsUpToDate ==
    (Compared /\ {current[k] : k \in DOMAIN current}
                    = {recommended.newest, recommended.oldest})
        => EndedUpToDate

\* C1 amended: whenever the record has exactly the fields newest and oldest
\* and each equals the same field of the recommendation, the run ends
\* UP_TO_DATE: updated=false, status 0, no file written.
SameRecordIsUpToDate ==
    (/\ Compared
     /\ DOMAIN current = {"newest", "oldest"}
     /\ current["newest"] = recommended.newest
     /\ current["oldest"] = recommended.oldest)
        => EndedUpToDate

\* C1 witness: an --apply run that ends UP_TO_DATE on a record whose file
\* lists oldest before newest.
UpToDateReached ==
    /\ pc = "UP_TO_DATE"
    /\ mode.apply
    /\ ~mode.check
    /\ before.versions.pairs[1][1] = "oldest"
    /\ recommended.newest # recommended.oldest

\* C2 as stated: a run without --apply whose fetch answered leaves every
\* file as it was and returns 0.
NoApplyLeavesFilesAndReturns0 ==
    (~mode.apply /\ pc \in Terminal \ {"FETCH_ERROR"})
        => (repo = before /\ written = <<>> /\ exitCode = 0)

\* C2 amended: a run without --apply never changes or writes a file; it
\* returns 0 when the catalog is not empty and the record is absent or
\* parses, and 1 when the catalog is empty.
NoApplyLeavesFiles ==
    ~mode.apply =>
        /\ repo = before
        /\ written = <<>>
        /\ calls = <<>>
        /\ pc = "FAILED" => exitCode = 1
        /\ (/\ pc \in Terminal \ {"FETCH_ERROR"}
            /\ DOMAIN available # {}
            /\ (before.versions.exists => before.versions.valid))
              => (exitCode = 0 /\ pc \in {"UP_TO_DATE", "CHECK_REPORT", "NO_MODE"})

\* C2 witness: a run with neither flag found an update and changed nothing,
\* and the --check run after it reports the update with the files untouched.
CheckReportReached ==
    /\ ~mode.apply
    /\ exitCode = 0
    /\ current # recommended
    /\ repo = before
    /\ prev.pc = "NO_MODE"
    /\ pc = "CHECK_REPORT"
    /\ emitted = UpdateSignalOf(recommended.newest, recommended.oldest)

\* C3: once the fetcher has answered with an empty catalog the run is in
\* FAILED with status 1, and has written no file, made no call of the apply
\* branch and emitted no output line.
EmptyCatalogFails ==
    (pc \notin {"FETCHING", "FETCH_ERROR"} /\ DOMAIN available = {}) =>
        /\ pc = "FAILED"
        /\ exitCode = 1
        /\ written = <<>>
        /\ calls = <<>>
        /\ emitted = <<>>
        /\ repo = before

\* C3 witness: an --apply run on releases none of which is usable.
EmptyCatalogReached ==
    /\ pc = "FAILED"
    /\ releases = <<T12_5_0, T15>>
    /\ mode.apply
    /\ ~mode.check

IsPrefix(a, b) == Len(a) <= Len(b) /\ a = SubSeq(b, 1, Len(a))

FixedOrder ==
    << "write_versions_file", "update_ci_workflow", "update_docker_bake",
       "update_mise_toml", "update_dockerfiles" >>

\* every target file can be read and every path can be written
Accessible(r) == r.ci.exists /\ r.bake.exists /\ r.mise.exists /\ r.readonly = {}

\* C5: the calls of a run are a prefix of the fixed order and happen only
\* under --apply without --check with an update available; such a run, on a
\* checkout whose files are accessible, ends only in DONE; and DONE means
\* all five calls were made once each, the record was the first file
\* written, status 0 and updated=true with the recommended versions.
ApplyCallsInFixedOrder ==
    /\ IsPrefix(calls, FixedOrder)
    /\ calls # <<>> => (mode.apply /\ ~mode.check /\ current # recommended)
    /\ (/\ pc \in Terminal
        /\ Compared
        /\ mode.apply /\ ~mode.check
        /\ current # recommended
        /\ Accessible(before))
          => pc = "DONE"
    /\ pc = "DONE" =>
          /\ calls = FixedOrder
          /\ Len(report) = 4
          /\ written # <<>> /\ written[1] = VERSIONS_FILE
          /\ exitCode = 0
          /\ emitted = UpdateSignalOf(recommended.newest, recommended.oldest)

\* C5 witness: an apply run that ends DONE although no target file holds
\* its pattern, so every patch operation returned False.
ApplyDoneWithoutChanges ==
    /\ pc = "DONE"
    /\ report = <<FALSE, FALSE, FALSE, FALSE>>
    /\ before.ci.text = NoPattern
    /\ written = <<VERSIONS_FILE>>

\* C9: when an apply run ends DONE the record parses to the recommendation;
\* the run that follows it never leaves the path FETCHING, COMPARING,
\* UP_TO_DATE (or a failed request), and once it has compared it has ended
\* UP_TO_DATE with updated=false and nothing written.
RunsConverge ==
    /\ pc = "DONE" =>
          /\ repo.versions.exists /\ repo.versions.valid
          /\ JsonLoads(repo.versions.pairs) = recommended
    /\ prev.pc = "DONE" =>
          /\ pc \in {"FETCHING", "FETCH_ERROR", "COMPARING", "UP_TO_DATE"}
          /\ (pc = "UP_TO_DATE" => EndedUpToDate /\ current = recommended)

\* C9 witness: an --apply run that ends UP_TO_DATE right after an apply run
\* that changed files.
ConvergedAfterApply ==
    /\ prev.pc = "DONE"
    /\ pc = "UP_TO_DATE"
    /\ mode.apply
    /\ repo.ci.text = CiText(T18_2_0, T14_19_0, T14_19_0)

\* C10: when an apply run raises in a patch operation the record already
\* parses to the recommendation; the run that follows it makes no call of
\* the apply branch, writes nothing, and once it has compared it has ended
\* UP_TO_DATE.
AbortedApplyIsNotResumed ==
    /\ (pc = "RAISED" /\ Len(calls) >= 2) =>
          /\ repo.versions.exists /\ repo.versions.valid
          /\ JsonLoads(repo.versions.pairs) = recommended
    /\ (prev.pc = "RAISED" /\ Len(prev.calls) >= 2) =>
          /\ pc \in {"FETCHING", "FETCH_ERROR", "COMPARING", "UP_TO_DATE"}
          /\ calls = <<>>
          /\ written = <<>>
          /\ repo = before
          /\ (pc = "UP_TO_DATE" => EndedUpToDate)

\* C10 witness: docker-bake.hcl is missing, the apply run raised in
\* update_docker_bake, and the following --apply run ended UP_TO_DATE while
\* mise.toml and the Dockerfiles still carry the old versions.
AbortedApplyLeftStaleFiles ==
    /\ prev.pc = "RAISED"
    /\ prev.calls = <<"write_versions_file", "update_ci_workflow",
                      "update_docker_bake">>
    /\ pc = "UP_TO_DATE"
    /\ mode.apply /\ ~mode.check
    /\ recommended = [newest |-> T18_2_0, oldest |-> T14_19_0]
    /\ repo.ci.text = CiText(T18_2_0, T14_19_0, T14_19_0)
    /\ repo.mise.text = MiseText(T17_6_1, T13_22_0)
    /\ repo.dockerfiles[DockerNames[1]] = DockerText(T13_22_0)

====
